---- MODULE Spec2Model ----
(***************************************************************************)
(* Model of the Gradio MCP client of demo-platform (src/app.py): one user   *)
(* turn runs chat_interface_fn, which opens an MCP client, runs             *)
(* process_user_query (catalog fetch, tool selection by the LLM, argument   *)
(* check, call_tool, result normalisation, narration) and appends the turn  *)
(* to the chat history (Spec).  SpecServer is one call of the search tool   *)
(* of src/server.py with its Tavily client; SpecSessions is several         *)
(* browser sessions running chat_interface_fn at once, each with its        *)
(* client and connection.                                                   *)
(*                                                                          *)
(* Strings are sequences of tokens [k, s]: an f-string is the concatenation *)
(* of its pieces, "text A contains text B" is "B is a contiguous run of A". *)
(* Python values are tagged records [t, v], t being the Python type name.   *)
(***************************************************************************)
EXTENDS Integers, Sequences, FiniteSets

\* ------------------------------------------------------------------ text

\* A piece of running text (a literal of the source, a message, a name).
W(s) == [k |-> "word", s |-> s]
\* JSON lexemes: punctuation, the literals null/true/false, numbers, strings.
P(s) == [k |-> "punct", s |-> s]
L(s) == [k |-> "lit", s |-> s]
N(s) == [k |-> "num", s |-> s]
S(s) == [k |-> "str", s |-> s]

\* b occurs in a as a contiguous run of tokens (Python's "b in a").
Contains(a, b) ==
    \E i \in 0..Len(a) :
        /\ i + Len(b) <= Len(a)
        /\ SubSeq(a, i + 1, i + Len(b)) = b

\* a begins with b (Python's a.startswith(b)).
StartsWith(a, b) == Len(b) <= Len(a) /\ SubSeq(a, 1, Len(b)) = b

\* ---------------------------------------------------------- Python values

PyNone == [t |-> "NoneType", v |-> ""]
PyStr(s) == [t |-> "str", v |-> s]
PyInt(d) == [t |-> "int", v |-> d]
PyBool(b) == [t |-> "bool", v |-> b]
PyList(xs) == [t |-> "list", v |-> xs]
\* A dict is its items in insertion order, each <<key, value>>.
PyDict(items) == [t |-> "dict", v |-> items]

\* Python truthiness (the "not x" / "if x" of the source).
Truthy(x) ==
    CASE x.t = "NoneType" -> FALSE
      [] x.t = "str" -> x.v # ""
      [] x.t = "int" -> x.v # "0"
      [] x.t = "bool" -> x.v = "True"
      [] OTHER -> Len(x.v) > 0

\* isinstance(x, dict)
IsDict(x) == x.t = "dict"

\* d[key] = val on a dict's items: an existing key keeps its place.
DictSet(items, key, val) ==
    IF \E i \in 1..Len(items) : items[i][1] = key
    THEN [i \in 1..Len(items) |->
            IF items[i][1] = key THEN <<key, val>> ELSE items[i]]
    ELSE Append(items, <<key, val>>)

\* d.get(key, default)
DictGet(d, key, default) ==
    IF \E i \in 1..Len(d.v) : d.v[i][1] = key
    THEN d.v[CHOOSE i \in 1..Len(d.v) : d.v[i][1] = key][2]
    ELSE default

\* f"{type(x)}"
TypeText(x) == <<W("<class '"), W(x.t), W("'>")>>

\* ------------------------------------------------------------- json.loads

ParseFail == [ok |-> FALSE, val |-> PyNone, rest |-> <<>>]
ParseOk(val, rest) == [ok |-> TRUE, val |-> val, rest |-> rest]
NextIs(toks, p) == Len(toks) > 0 /\ toks[1] = P(p)

RECURSIVE ParseValue(_), ParseElements(_, _), ParseMembers(_, _)

\* One JSON value at the head of toks, and the tokens left after it.
ParseValue(toks) ==
    IF toks = <<>> THEN ParseFail
    ELSE LET h == Head(toks)
             r == Tail(toks)
         IN CASE h = L("null") -> ParseOk(PyNone, r)
              [] h = L("true") -> ParseOk(PyBool("True"), r)
              [] h = L("false") -> ParseOk(PyBool("False"), r)
              [] h.k = "num" -> ParseOk(PyInt(h.s), r)
              [] h.k = "str" -> ParseOk(PyStr(h.s), r)
              [] h = P("[") ->
                    IF NextIs(r, "]") THEN ParseOk(PyList(<<>>), Tail(r))
                    ELSE ParseElements(r, <<>>)
              [] h = P("{") ->
                    IF NextIs(r, "}") THEN ParseOk(PyDict(<<>>), Tail(r))
                    ELSE ParseMembers(r, <<>>)
              [] OTHER -> ParseFail

\* The elements of an array after "[", acc the ones read so far.
ParseElements(toks, acc) ==
    LET e == ParseValue(toks)
    IN IF ~e.ok THEN ParseFail
       ELSE IF NextIs(e.rest, ",")
            THEN ParseElements(Tail(e.rest), Append(acc, e.val))
       ELSE IF NextIs(e.rest, "]")
            THEN ParseOk(PyList(Append(acc, e.val)), Tail(e.rest))
       ELSE ParseFail

\* The members of an object after "{", acc the items read so far.
ParseMembers(toks, acc) ==
    IF Len(toks) >= 2 /\ toks[1].k = "str" /\ toks[2] = P(":")
    THEN LET e == ParseValue(SubSeq(toks, 3, Len(toks)))
         IN IF ~e.ok THEN ParseFail
            ELSE LET items == DictSet(acc, toks[1].s, e.val)
                 IN IF NextIs(e.rest, ",")
                         THEN ParseMembers(Tail(e.rest), items)
                    ELSE IF NextIs(e.rest, "}")
                         THEN ParseOk(PyDict(items), Tail(e.rest))
                    ELSE ParseFail
    ELSE ParseFail

\* json.loads(text): ok with the value, or not ok (json.JSONDecodeError):
\* the whole text must be one JSON value.
JsonLoads(text) ==
    LET r == ParseValue(text)
    IN IF r.ok /\ r.rest = <<>> THEN [ok |-> TRUE, val |-> r.val]
       ELSE [ok |-> FALSE, val |-> PyNone]

\* ------------------------------------------------------------- json.dumps

RECURSIVE JsonDumps(_), DumpElements(_, _), DumpMembers(_, _)

\* json.dumps(x) of a value built of None, bool, int, str, list and dict.
JsonDumps(x) ==
    CASE x.t = "NoneType" -> <<L("null")>>
      [] x.t = "bool" -> <<L(IF x.v = "True" THEN "true" ELSE "false")>>
      [] x.t = "int" -> <<N(x.v)>>
      [] x.t = "str" -> <<S(x.v)>>
      [] x.t = "list" -> <<P("[")>> \o DumpElements(x.v, 1) \o <<P("]")>>
      [] OTHER -> <<P("{")>> \o DumpMembers(x.v, 1) \o <<P("}")>>

DumpElements(xs, i) ==
    IF i > Len(xs) THEN <<>>
    ELSE (IF i > 1 THEN <<P(",")>> ELSE <<>>)
         \o JsonDumps(xs[i]) \o DumpElements(xs, i + 1)

DumpMembers(items, i) ==
    IF i > Len(items) THEN <<>>
    ELSE (IF i > 1 THEN <<P(",")>> ELSE <<>>)
         \o <<S(items[i][1]), P(":")>> \o JsonDumps(items[i][2])
         \o DumpMembers(items, i + 1)

\* f"{x}" of a parsed JSON value: a str is its characters, anything else its
\* repr (written here with the JSON lexemes of the value).
FormatValue(x) ==
    CASE x.t = "str" -> <<W(x.v)>>
      [] x.t = "NoneType" -> <<W("None")>>
      [] x.t = "bool" -> <<W(x.v)>>
      [] OTHER -> JsonDumps(x)

\* f"{e}" of an exception is its message; an exception is its class and message.
Exc(cls, msg) == [cls |-> cls, msg |-> msg]

\* The classes "except Exception" catches: every exception the collaborators
\* raise here derives from Exception.
ExceptionClasses ==
    {"ConnectionRefusedError", "RuntimeError", "ToolError", "TimeoutError",
     "APIConnectionError", "TypeError", "AttributeError", "JSONDecodeError",
     "PydanticInvalidForJsonSchema"}

\* A str built by the program, and a name no value is bound to.
Text(toks) == [t |-> "str", v |-> toks]
Unbound == [t |-> "unbound", v |-> <<>>]

\* --------------------------------------------------------------- ask_openai

\* What the completion service does with one request: it answers with a
\* text, or the request raises.
Answer(text) == [raises |-> FALSE, text |-> text, exc |-> Exc("", <<>>)]
Failure(e) == [raises |-> TRUE, text |-> <<>>, exc |-> e]

OpenAIErrorText(e) == <<W("Error: Could not contact OpenAI - ")>> \o e.msg

\* A handler that swallows the failure and gives an empty answer.
AskOpenaiSwallow(outcome) ==
    IF outcome.raises THEN <<>> ELSE outcome.text

\* ask_openai: the completion's content, or the error string of its handler.
AskOpenai(outcome) ==
    IF outcome.raises THEN OpenAIErrorText(outcome.exc) ELSE outcome.text

\* ----------------------------------------------- list_mcp_tools_with_schema

\* A raw tool of list_tools: inputSchema and parameters are each absent
\* (no such attribute), a value, or (parameters only) a pydantic model class
\* whose model_json_schema() gives val ("model") or raises ("badmodel").
Attr(kind, val) == [kind |-> kind, val |-> val]
Absent == Attr("absent", PyNone)
RawTool(name, description, inputSchema, parameters) ==
    [name |-> name, description |-> description,
     inputSchema |-> inputSchema, parameters |-> parameters]

\* A choice that goes on to "parameters" whenever inputSchema gave no dict.
ParameterSchemaFallsThrough(tool_obj) ==
    IF tool_obj.inputSchema.kind # "absent" /\ IsDict(tool_obj.inputSchema.val)
    THEN [ok |-> TRUE, val |-> tool_obj.inputSchema.val]
    ELSE IF tool_obj.parameters.kind # "absent"
    THEN CASE tool_obj.parameters.kind = "model" ->
                [ok |-> TRUE, val |-> tool_obj.parameters.val]
           [] tool_obj.parameters.kind = "badmodel" ->
                [ok |-> FALSE, val |-> PyNone]
           [] IsDict(tool_obj.parameters.val) ->
                [ok |-> TRUE, val |-> tool_obj.parameters.val]
           [] OTHER -> [ok |-> TRUE, val |-> PyDict(<<>>)]
    ELSE [ok |-> TRUE, val |-> PyDict(<<>>)]

\* The schema chosen for one raw tool, or the exception its extraction raises.
ParameterSchema(tool_obj) ==
    IF tool_obj.inputSchema.kind # "absent" /\ tool_obj.inputSchema.val.t # "NoneType"
    THEN IF IsDict(tool_obj.inputSchema.val)
         THEN [ok |-> TRUE, val |-> tool_obj.inputSchema.val]
         ELSE [ok |-> TRUE, val |-> PyDict(<<>>)]
    ELSE IF tool_obj.parameters.kind # "absent"
    THEN CASE tool_obj.parameters.kind = "model" ->
                [ok |-> TRUE, val |-> tool_obj.parameters.val]
           [] tool_obj.parameters.kind = "badmodel" ->
                [ok |-> FALSE, val |-> PyNone]
           [] IsDict(tool_obj.parameters.val) ->
                [ok |-> TRUE, val |-> tool_obj.parameters.val]
           [] OTHER -> [ok |-> TRUE, val |-> PyDict(<<>>)]
    ELSE [ok |-> TRUE, val |-> PyDict(<<>>)]

\* One entry of tools_data.
ToolData(tool_obj) ==
    PyDict(<< <<"name", PyStr(tool_obj.name)>>,
              <<"description", PyStr(tool_obj.description)>>,
              <<"parameters_schema", ParameterSchema(tool_obj).val>> >>)

\* What list_tools does: raises, or returns raw tools.
Listed(raw_tools) == [raises |-> FALSE, tools |-> raw_tools]
ListFailure == [raises |-> TRUE, tools |-> <<>>]

\* list_mcp_tools_with_schema: the catalog, [] when list_tools raises or
\* returns nothing, and [] when anything in the loop raises (the one
\* try/except spans the whole function).
ListMcpToolsWithSchema(outcome) ==
    IF outcome.raises THEN <<>>
    ELSE IF outcome.tools = <<>> THEN <<>>
    ELSE IF \E i \in 1..Len(outcome.tools) : ~ParameterSchema(outcome.tools[i]).ok
         THEN <<>>
    ELSE [i \in 1..Len(outcome.tools) |-> ToolData(outcome.tools[i])]

\* ------------------------------------------------------- process_user_query

CatalogErrorText == <<W("Error: Could not retrieve tools from the MCP server.")>>

SelectionSystemPrompt ==
    <<W("You are an AI assistant that helps select the correct tool and its arguments to answer a user's query. ...")>>

\* user_prompt_tool_selection: the query and json.dumps of the catalog.
SelectionUserPrompt(user_query, mcp_tools_list) ==
    <<W("User query: \""), W(user_query), W("\" Available tools: ")>>
    \o JsonDumps(PyList(mcp_tools_list))
    \o <<W("Based on the user query and available tools, which tool should be used and with what arguments? Remember to respond only with the JSON object.")>>

InvalidJsonText(llm_tool_choice_str) ==
    <<W("Error: LLM did not provide a valid JSON response for tool selection. LLM response:\n")>>
    \o llm_tool_choice_str

ParseErrorText(e, llm_tool_choice_str) ==
    <<W("Error parsing LLM tool choice: ")>> \o e.msg
    \o <<W(". LLM response:\n")>> \o llm_tool_choice_str

\* llm_tool_choice.get(...) on a value that is no dict.
NoGetError(x) ==
    Exc("AttributeError", <<W("'"), W(x.t), W("' object has no attribute 'get'")>>)

\* A parse that takes text that is no JSON for "no tool" instead of failing.
ParseSelectionGuess(llm_tool_choice_str) ==
    LET r == JsonLoads(llm_tool_choice_str)
    IN IF r.ok /\ IsDict(r.val)
       THEN [ok |-> TRUE,
             tool_name |-> DictGet(r.val, "tool_name", PyNone),
             tool_arguments |-> DictGet(r.val, "arguments", PyDict(<<>>)),
             error |-> <<>>]
       ELSE [ok |-> TRUE, tool_name |-> PyNone, tool_arguments |-> PyDict(<<>>),
             error |-> <<>>]

\* The try block of the selection parse: the selection, or the error
\* response of the handler that caught the failure.
ParseSelection(llm_tool_choice_str) ==
    LET r == JsonLoads(llm_tool_choice_str)
    IN IF ~r.ok
       THEN [ok |-> FALSE, tool_name |-> Unbound, tool_arguments |-> Unbound,
             error |-> InvalidJsonText(llm_tool_choice_str)]
       ELSE IF ~IsDict(r.val)
       THEN [ok |-> FALSE, tool_name |-> Unbound, tool_arguments |-> Unbound,
             error |-> ParseErrorText(NoGetError(r.val), llm_tool_choice_str)]
       ELSE [ok |-> TRUE,
             tool_name |-> DictGet(r.val, "tool_name", PyNone),
             tool_arguments |-> DictGet(r.val, "arguments", PyDict(<<>>)),
             error |-> <<>>]

\* A test for None alone, which lets the empty string through.
NoToolSelectedIsNone(tool_name) == tool_name.t = "NoneType"

\* "if not tool_name": no tool was selected.
NoToolSelected(tool_name) == ~Truthy(tool_name)

NoToolMarker == <<W("(No specific tool was used by the LLM for your query)")>>

GeneralSystemPrompt == <<W("You are a helpful AI assistant.")>>

GeneralAnswerPrompt(user_query) ==
    <<W("The user asked: '"), W(user_query),
      W("'. No specific tool was chosen. Please provide a helpful general response.")>>

NoToolResponse(general_response) ==
    NoToolMarker \o <<W("\nLLM: ")>> \o general_response

\* A check that rejects only a str, the shape the comment in the source names.
ArgumentsMalformedStrOnly(tool_arguments) == tool_arguments.t = "str"

\* "if not isinstance(tool_arguments, dict)"
ArgumentsMalformed(tool_arguments) == ~IsDict(tool_arguments)

ArgumentsErrorText(tool_name, tool_arguments) ==
    <<W("Error: LLM provided arguments in an incorrect format for tool '")>>
    \o FormatValue(tool_name)
    \o <<W("'. Expected a dictionary, got ")>> \o TypeText(tool_arguments)
    \o <<W(".")>>

\* An error text that names the tool and loses the exception's message.
InvocationErrorTextNoMessage(tool_name, e) ==
    <<W("Error executing tool '")>> \o FormatValue(tool_name)
    \o <<W("' on MCP server: ")>>

InvocationErrorText(tool_name, e) ==
    <<W("Error executing tool '")>> \o FormatValue(tool_name)
    \o <<W("' on MCP server: ")>> \o e.msg

\* A content item of a call_tool result: the attributes it has, its text,
\* the Python type of its data, res.__dict__ (or, without one, str(res)) as
\* view, and whether json.dumps accepts that view.
Item(attrs, text, dataType, view, dumpable) ==
    [attrs |-> attrs, text |-> text, dataType |-> dataType, view |-> view,
     dumpable |-> dumpable]

HasAttr(item, name) == name \in item.attrs

NoContentText == <<W("Tool executed successfully but returned no content.")>>

BinaryText(item) ==
    <<W("[Binary data received, type: "), W("<class '"), W(item.dataType),
      W("'>"), W("]")>>

\* What call_tool does: raises, or returns a list of content items.
Returned(items) == [raises |-> FALSE, items |-> items, exc |-> Exc("", <<>>)]
Raised(e) == [raises |-> TRUE, items |-> <<>>, exc |-> e]

\* A normalisation that tests for data before text.
NormalizeResultDataFirst(tool_result_list) ==
    IF tool_result_list # <<>> /\ HasAttr(tool_result_list[1], "data")
    THEN [ok |-> TRUE, out |-> BinaryText(tool_result_list[1]), exc |-> Exc("", <<>>)]
    ELSE IF tool_result_list # <<>> /\ HasAttr(tool_result_list[1], "text")
    THEN [ok |-> TRUE, out |-> <<W(tool_result_list[1].text)>>, exc |-> Exc("", <<>>)]
    ELSE IF tool_result_list # <<>>
    THEN IF \A i \in 1..Len(tool_result_list) : tool_result_list[i].dumpable
         THEN [ok |-> TRUE,
               out |-> JsonDumps(PyList([i \in 1..Len(tool_result_list) |->
                                            tool_result_list[i].view])),
               exc |-> Exc("", <<>>)]
         ELSE [ok |-> FALSE, out |-> <<>>,
               exc |-> Exc("TypeError", <<W("Object is not JSON serializable")>>)]
    ELSE [ok |-> TRUE, out |-> NoContentText, exc |-> Exc("", <<>>)]

\* A normalisation without the branch for data: an item with data is
\* serialised with the other items.
NormalizeResultNoBinaryBranch(tool_result_list) ==
    IF tool_result_list # <<>> /\ HasAttr(tool_result_list[1], "text")
    THEN [ok |-> TRUE, out |-> <<W(tool_result_list[1].text)>>, exc |-> Exc("", <<>>)]
    ELSE IF tool_result_list # <<>>
    THEN IF \A i \in 1..Len(tool_result_list) : tool_result_list[i].dumpable
         THEN [ok |-> TRUE,
               out |-> JsonDumps(PyList([i \in 1..Len(tool_result_list) |->
                                            tool_result_list[i].view])),
               exc |-> Exc("", <<>>)]
         ELSE [ok |-> FALSE, out |-> <<>>,
               exc |-> Exc("TypeError", <<W("Object is not JSON serializable")>>)]
    ELSE [ok |-> TRUE, out |-> NoContentText, exc |-> Exc("", <<>>)]

\* A normalisation whose last two branches are merged: an empty result is
\* serialised like any list without text or data.
NormalizeResultEmptyAsJson(tool_result_list) ==
    IF tool_result_list # <<>> /\ HasAttr(tool_result_list[1], "text")
    THEN [ok |-> TRUE, out |-> <<W(tool_result_list[1].text)>>, exc |-> Exc("", <<>>)]
    ELSE IF tool_result_list # <<>> /\ HasAttr(tool_result_list[1], "data")
    THEN [ok |-> TRUE, out |-> BinaryText(tool_result_list[1]), exc |-> Exc("", <<>>)]
    ELSE IF \A i \in 1..Len(tool_result_list) : tool_result_list[i].dumpable
    THEN [ok |-> TRUE,
          out |-> JsonDumps(PyList([i \in 1..Len(tool_result_list) |->
                                       tool_result_list[i].view])),
          exc |-> Exc("", <<>>)]
    ELSE [ok |-> FALSE, out |-> <<>>,
          exc |-> Exc("TypeError", <<W("Object is not JSON serializable")>>)]

\* The result normalisation after call_tool: tool_output_for_llm, or the
\* exception json.dumps raises on an item it cannot serialise.
NormalizeResult(tool_result_list) ==
    IF tool_result_list # <<>> /\ HasAttr(tool_result_list[1], "text")
    THEN [ok |-> TRUE, out |-> <<W(tool_result_list[1].text)>>, exc |-> Exc("", <<>>)]
    ELSE IF tool_result_list # <<>> /\ HasAttr(tool_result_list[1], "data")
    THEN [ok |-> TRUE, out |-> BinaryText(tool_result_list[1]), exc |-> Exc("", <<>>)]
    ELSE IF tool_result_list # <<>>
    THEN IF \A i \in 1..Len(tool_result_list) : tool_result_list[i].dumpable
         THEN [ok |-> TRUE,
               out |-> JsonDumps(PyList([i \in 1..Len(tool_result_list) |->
                                            tool_result_list[i].view])),
               exc |-> Exc("", <<>>)]
         ELSE [ok |-> FALSE, out |-> <<>>,
               exc |-> Exc("TypeError", <<W("Object is not JSON serializable")>>)]
    ELSE [ok |-> TRUE, out |-> NoContentText, exc |-> Exc("", <<>>)]

SummarizeSystemPrompt ==
    <<W("You are an AI assistant. A tool was executed to help answer a user's query. Explain the tool's output to the user in a friendly and concise way.")>>

SummarizeUserPrompt(user_query, tool_name, tool_arguments, tool_output_for_llm) ==
    <<W("The user originally asked: \""), W(user_query), W("\" The tool \"")>>
    \o FormatValue(tool_name) \o <<W("\" was called with arguments ")>>
    \o JsonDumps(tool_arguments)
    \o <<W(". The tool returned the following output: --- ")>>
    \o tool_output_for_llm
    \o <<W(" --- Please provide a natural language response to the user based on this.")>>

\* -------------------------------------------------------- chat_interface_fn

ConnectErrorText ==
    <<W("Error: Could not connect to the MCP server. Is it running and accessible?")>>

UnexpectedErrorText(e) == <<W("An unexpected error occurred: ")>> \o e.msg

\* The handlers without the catch-all "except Exception".
HandleExceptionRefusedOnly(e) ==
    IF e.cls = "ConnectionRefusedError" THEN Text(ConnectErrorText) ELSE Unbound

\* The handlers of chat_interface_fn's try: the response for a caught
\* exception; Unbound when no handler catches it and it leaves the function.
HandleException(e) ==
    IF e.cls = "ConnectionRefusedError" THEN Text(ConnectErrorText)
    ELSE IF e.cls \in ExceptionClasses THEN Text(UnexpectedErrorText(e))
    ELSE Unbound

\* ------------------------------------------------------------ environment

\* The most turns one session runs in the model.
MaxTurns == 2

Messages == {"search for recent AI news"}

ObjectSchema ==
    PyDict(<< <<"type", PyStr("object")>>,
              <<"required", PyList(<<PyStr("query")>>)>> >>)

\* The server's tool as mcp.types.Tool gives it: inputSchema is a dict.
SearchTool ==
    RawTool("tavily_search", "web search", Attr("value", ObjectSchema), Absent)
\* A tool exposing its schema as a pydantic model under "parameters".
ModelTool ==
    RawTool("lookup", "lookup", Attr("value", PyNone), Attr("model", ObjectSchema))
\* A tool whose inputSchema is no dict while "parameters" is one.
OddTool ==
    RawTool("odd", "odd", Attr("value", PyStr("{}")), Attr("value", ObjectSchema))
\* A tool with neither attribute.
BareTool == RawTool("bare", "bare", Absent, Absent)
\* A tool whose pydantic model cannot give a JSON schema.
BadModelTool ==
    RawTool("bad", "bad", Absent, Attr("badmodel", PyNone))

ListOutcomes ==
    {ListFailure, Listed(<<>>), Listed(<<SearchTool>>),
     Listed(<<SearchTool, ModelTool>>), Listed(<<OddTool, BareTool>>),
     Listed(<<SearchTool, BadModelTool>>)}

\* {"tool_name": <name>, "arguments": <arguments>} as the oracle writes it.
SelectionJson(name, arguments) ==
    <<P("{"), S("tool_name"), P(":")>> \o name
    \o <<P(","), S("arguments"), P(":")>> \o arguments \o <<P("}")>>

QueryArgs == <<P("{"), S("query"), P(":"), S("recent AI news"), P(","),
               S("max_results"), P(":"), N("5"), P("}")>>

OracleError == Exc("APIConnectionError", <<W("Connection error.")>>)

\* What the oracle may answer to the selection request.
SelectionOutcomes ==
    {Failure(OracleError),
     Answer(SelectionJson(<<L("null")>>, <<P("{"), P("}")>>)),
     Answer(SelectionJson(<<L("null")>>, <<S("not-an-object")>>)),
     Answer(SelectionJson(<<S("")>>, QueryArgs)),
     Answer(<<P("{"), S("arguments"), P(":"), QueryArgs[1], P("}"), P("}")>>),
     Answer(SelectionJson(<<S("tavily_search")>>, QueryArgs)),
     Answer(<<P("{"), S("tool_name"), P(":"), S("tavily_search"), P("}")>>),
     Answer(SelectionJson(<<S("x")>>, <<S("not-an-object")>>)),
     Answer(SelectionJson(<<S("x")>>, <<P("["), S("q"), P("]")>>)),
     Answer(SelectionJson(<<S("x")>>, <<L("null")>>)),
     Answer(SelectionJson(<<S("x")>>, <<N("5")>>)),
     Answer(<<W("I would use the tavily_search tool.")>>),
     Answer(<<W("Here is the JSON:")>> \o SelectionJson(<<S("tavily_search")>>, QueryArgs)
            \o <<W("Let me know if you need more.")>>),
     Answer(<<P("{"), S("tool_name"), P(":"), S("tavily_search"), P(",")>>),
     Answer(<<P("["), S("tavily_search"), P("]")>>),
     Answer(<<S("tavily_search")>>)}

NarrationOutcomes ==
    {Failure(OracleError), Answer(<<W("Here is what I found.")>>)}

TextItem(s) ==
    Item({"text", "__dict__"}, s, "",
         PyDict(<< <<"type", PyStr("text")>>, <<"text", PyStr(s)>> >>), TRUE)
ImageItem ==
    Item({"data", "__dict__"}, "", "str",
         PyDict(<< <<"type", PyStr("image")>>, <<"data", PyStr("aGk=")>>,
                   <<"mimeType", PyStr("image/png")>> >>), TRUE)
\* An item with both a text and a data attribute.
BlobTextItem ==
    Item({"text", "data", "__dict__"}, "caption", "bytes",
         PyDict(<< <<"text", PyStr("caption")>> >>), TRUE)
\* A plain str in the result list: no text, no data, no __dict__.
StrItem == Item({}, "", "", PyStr("plain"), TRUE)
\* An object whose __dict__ holds something json.dumps rejects.
ResourceItem == Item({"__dict__"}, "", "", PyNone, FALSE)

CallOutcomes ==
    {Raised(Exc("ToolError", <<W("Unknown tool: "), W("x")>>)),
     Raised(Exc("TimeoutError", <<W("timed out")>>)),
     Returned(<<>>),
     Returned(<<TextItem("AI news summary...")>>),
     Returned(<<TextItem("first"), TextItem("second")>>),
     Returned(<<ImageItem>>),
     Returned(<<BlobTextItem, ImageItem>>),
     Returned(<<StrItem, TextItem("late")>>),
     Returned(<<ResourceItem>>)}

\* Opening the client (Client(...) and __aenter__) and closing it
\* (__aexit__): it works, or it raises.
Opened == [raises |-> FALSE, exc |-> Exc("", <<>>)]
OpenFailure(e) == [raises |-> TRUE, exc |-> e]

EnterOutcomes ==
    {Opened,
     OpenFailure(Exc("ConnectionRefusedError", <<W("[Errno 111] Connection refused")>>)),
     OpenFailure(Exc("RuntimeError", <<W("Client failed to connect")>>))}

ExitOutcomes ==
    {Opened, OpenFailure(Exc("RuntimeError", <<W("Server session was closed unexpectedly")>>))}

\* -------------------------------------------------------------------- state

VARIABLES
    history,              \* the chat history: entries [role, content]
    turns,                \* turns started in this session
    pc,                   \* where the running turn is
    message,              \* chat_interface_fn's message
    conn,                 \* the turn's client connection: "closed" or "open"
    mcp_tools_list,       \* the catalog
    llm_tool_choice_str,  \* the selection oracle's raw text
    tool_name,            \* the parsed selection
    tool_arguments,
    tool_result_list,     \* what call_tool returned
    tool_output_for_llm,  \* the normalised tool output
    ret,                  \* what process_user_query returned
    bot_response,         \* chat_interface_fn's bot_response
    listCalls,            \* this turn's list_tools calls: what each did
    toolCalls,            \* this turn's call_tool calls: arguments and reply
    oracleCalls           \* this turn's completion requests and replies

locals ==
    <<message, mcp_tools_list, llm_tool_choice_str, tool_name, tool_arguments,
      tool_result_list, tool_output_for_llm, ret, bot_response>>
logs == <<listCalls, toolCalls, oracleCalls>>

\* The search server (server.py) is its own process; its state is one call of
\* the tavily_search tool.
VARIABLES
    srv,                  \* where the running call of tavily_search is
    given,                \* the arguments the host passed to tavily_search
    query,                \* tavily_search's parameters and locals
    max_results,
    search_depth,
    results,
    tool_return,          \* what tavily_search gave back to its host
    keyReads,             \* this call's reads of TAVILY_API_KEY
    searchCalls           \* this call's client.search calls and what each did

server ==
    <<srv, given, query, max_results, search_depth, results, tool_return,
      keyReads, searchCalls>>

\* The UI serves several browser sessions; each runs chat_interface_fn.
VARIABLES
    phase,                \* where each session's chat_interface_fn is
    started,              \* the calls of chat_interface_fn each session made
    mcp_client_instance,  \* each session's Client object
    connections,          \* the connections to the tool host that are open
    opened                \* every connection made so far

sessions == <<phase, started, mcp_client_instance, connections, opened>>

\* What a step of the chat application leaves alone.
aside == <<server, sessions>>

vars == <<history, turns, pc, conn, locals, logs, server, sessions>>

\* No call of tavily_search has been made.
ServerInit ==
    /\ srv = "ready"
    /\ given = <<>>
    /\ query = Unbound
    /\ max_results = Unbound
    /\ search_depth = Unbound
    /\ results = Unbound
    /\ tool_return = Unbound
    /\ keyReads = <<>>
    /\ searchCalls = <<>>

MaxSessions == 2

Sessions == 1..MaxSessions

\* The module-level SSETransport, and the name of no client.
MCP_CLIENT_TRANSPORT == <<"SSETransport", 0, 0>>
NoClient == [id |-> <<>>, transport |-> <<>>]

\* No session has called chat_interface_fn.
SessionsInit ==
    /\ phase = [s \in Sessions |-> "idle"]
    /\ started = [s \in Sessions |-> 0]
    /\ mcp_client_instance = [s \in Sessions |-> NoClient]
    /\ connections = {}
    /\ opened = {}

Init ==
    /\ ServerInit
    /\ SessionsInit
    /\ history = <<>>
    /\ turns = 0
    /\ pc = "idle"
    /\ message = ""
    /\ conn = "closed"
    /\ mcp_tools_list = <<>>
    /\ llm_tool_choice_str = <<>>
    /\ tool_name = Unbound
    /\ tool_arguments = Unbound
    /\ tool_result_list = <<>>
    /\ tool_output_for_llm = <<>>
    /\ ret = Unbound
    /\ bot_response = Unbound
    /\ listCalls = <<>>
    /\ toolCalls = <<>>
    /\ oracleCalls = <<>>

\* One completion request as the oracle sees it, and what it did with it.
Request(mode, system_prompt, user_prompt, reply) ==
    [mode |-> mode, system |-> system_prompt, user |-> user_prompt,
     reply |-> reply]

\* process_user_query returns text: the turn goes on to close the client.
Return(text) == ret' = Text(text) /\ pc' = "exit"

\* The user submits a message: chat_interface_fn starts with fresh locals.
Submit(m) ==
    /\ pc = "idle"
    /\ turns < MaxTurns
    /\ turns' = turns + 1
    /\ message' = m
    /\ pc' = "enter"
    /\ mcp_tools_list' = <<>>
    /\ llm_tool_choice_str' = <<>>
    /\ tool_name' = Unbound
    /\ tool_arguments' = Unbound
    /\ tool_result_list' = <<>>
    /\ tool_output_for_llm' = <<>>
    /\ ret' = Unbound
    /\ bot_response' = Unbound
    /\ listCalls' = <<>>
    /\ toolCalls' = <<>>
    /\ oracleCalls' = <<>>
    /\ UNCHANGED <<aside, history, conn>>

\* Client(transport=...) and "async with ... as mcp_client".
Enter(o) ==
    /\ pc = "enter"
    /\ IF o.raises
       THEN /\ bot_response' = HandleException(o.exc)
            /\ pc' = IF HandleException(o.exc) = Unbound THEN "raised" ELSE "append"
            /\ conn' = conn
       ELSE /\ conn' = "open"
            /\ pc' = "list"
            /\ bot_response' = bot_response
    /\ UNCHANGED <<aside, history, turns, message, mcp_tools_list, llm_tool_choice_str,
                   tool_name, tool_arguments, tool_result_list,
                   tool_output_for_llm, ret, logs>>

\* Step 1 without the early return: an empty catalog goes on to selection.
ListToolsNoEarlyReturn(o) ==
    /\ pc = "list"
    /\ listCalls' = Append(listCalls, o)
    /\ mcp_tools_list' = ListMcpToolsWithSchema(o)
    /\ pc' = "select"
    /\ UNCHANGED <<aside, history, turns, conn, message, llm_tool_choice_str, tool_name,
                   tool_arguments, tool_result_list, tool_output_for_llm, ret,
                   bot_response, toolCalls, oracleCalls>>

\* Step 1: the catalog, and the early return when it is empty.
ListTools(o) ==
    /\ pc = "list"
    /\ listCalls' = Append(listCalls, o)
    /\ mcp_tools_list' = ListMcpToolsWithSchema(o)
    /\ IF ListMcpToolsWithSchema(o) = <<>>
       THEN Return(CatalogErrorText)
       ELSE pc' = "select" /\ ret' = ret
    /\ UNCHANGED <<aside, history, turns, conn, message, llm_tool_choice_str, tool_name,
                   tool_arguments, tool_result_list, tool_output_for_llm,
                   bot_response, toolCalls, oracleCalls>>

\* Step 2 with one retry: a failed selection request is made again.
SelectRetry(o) ==
    /\ pc = "select"
    /\ LET req == Request("select", SelectionSystemPrompt,
                          SelectionUserPrompt(message, mcp_tools_list), o)
       IN oracleCalls' = IF o.raises THEN oracleCalls \o <<req, req>>
                         ELSE Append(oracleCalls, req)
    /\ llm_tool_choice_str' = AskOpenai(o)
    /\ pc' = "parse"
    /\ UNCHANGED <<aside, history, turns, conn, message, mcp_tools_list, tool_name,
                   tool_arguments, tool_result_list, tool_output_for_llm, ret,
                   bot_response, listCalls, toolCalls>>

\* Step 2: the selection request to the oracle.
Select(o) ==
    /\ pc = "select"
    /\ oracleCalls' = Append(oracleCalls,
            Request("select", SelectionSystemPrompt,
                    SelectionUserPrompt(message, mcp_tools_list), o))
    /\ llm_tool_choice_str' = AskOpenai(o)
    /\ pc' = "parse"
    /\ UNCHANGED <<aside, history, turns, conn, message, mcp_tools_list, tool_name,
                   tool_arguments, tool_result_list, tool_output_for_llm, ret,
                   bot_response, listCalls, toolCalls>>

\* The parse of the oracle's text, and its two handlers.
Parse ==
    /\ pc = "parse"
    /\ LET sel == ParseSelection(llm_tool_choice_str)
       IN IF sel.ok
          THEN /\ tool_name' = sel.tool_name
               /\ tool_arguments' = sel.tool_arguments
               /\ pc' = "decide"
               /\ ret' = ret
          ELSE /\ Return(sel.error)
               /\ UNCHANGED <<tool_name, tool_arguments>>
    /\ UNCHANGED <<aside, history, turns, conn, message, mcp_tools_list,
                   llm_tool_choice_str, tool_result_list, tool_output_for_llm,
                   bot_response, logs>>

\* "if not tool_name".
Decide ==
    /\ pc = "decide"
    /\ pc' = IF NoToolSelected(tool_name) THEN "fallback" ELSE "validate"
    /\ UNCHANGED <<aside, history, turns, conn, locals, logs>>

\* No tool: the general answer, marked.
Fallback(o) ==
    /\ pc = "fallback"
    /\ oracleCalls' = Append(oracleCalls,
            Request("general", GeneralSystemPrompt, GeneralAnswerPrompt(message), o))
    /\ Return(NoToolResponse(AskOpenai(o)))
    /\ UNCHANGED <<aside, history, turns, conn, message, mcp_tools_list,
                   llm_tool_choice_str, tool_name, tool_arguments,
                   tool_result_list, tool_output_for_llm, bot_response,
                   listCalls, toolCalls>>

\* Step 3 without the check of the arguments.
ValidateSkipped ==
    /\ pc = "validate"
    /\ pc' = "call"
    /\ UNCHANGED <<aside, history, turns, conn, locals, logs>>

\* Step 3, first part: the arguments must be a dict.
Validate ==
    /\ pc = "validate"
    /\ IF ArgumentsMalformed(tool_arguments)
       THEN Return(ArgumentsErrorText(tool_name, tool_arguments))
       ELSE pc' = "call" /\ ret' = ret
    /\ UNCHANGED <<aside, history, turns, conn, message, mcp_tools_list,
                   llm_tool_choice_str, tool_name, tool_arguments,
                   tool_result_list, tool_output_for_llm, bot_response, logs>>

\* A call that passes the tool name and drops the selected arguments.
CallArgumentsDropped(name, arguments) ==
    [name |-> name, arguments |-> PyDict(<<>>)]

\* The arguments call_tool is given.
CallArguments(name, arguments) == [name |-> name, arguments |-> arguments]

\* One call_tool call as the transport sees it, and what it did with it.
ToolCall(args, reply) ==
    [name |-> args.name, arguments |-> args.arguments, reply |-> reply]

\* Step 3 with a failure of call_tool handed to the narrator as the tool's
\* output instead of being returned.
CallToolNarratesError(o) ==
    /\ pc = "call"
    /\ toolCalls' = Append(toolCalls,
            ToolCall(CallArguments(tool_name, tool_arguments), o))
    /\ tool_result_list' = IF o.raises THEN <<>> ELSE o.items
    /\ tool_output_for_llm' =
            IF o.raises THEN InvocationErrorText(tool_name, o.exc)
            ELSE tool_output_for_llm
    /\ pc' = IF o.raises THEN "narrate" ELSE "normalize"
    /\ UNCHANGED <<aside, history, turns, conn, message, mcp_tools_list,
                   llm_tool_choice_str, tool_name, tool_arguments, ret,
                   bot_response, listCalls, oracleCalls>>

\* Step 3: call_tool, and the handler of its failure.
CallTool(o) ==
    /\ pc = "call"
    /\ toolCalls' = Append(toolCalls,
            ToolCall(CallArguments(tool_name, tool_arguments), o))
    /\ IF o.raises
       THEN /\ Return(InvocationErrorText(tool_name, o.exc))
            /\ tool_result_list' = tool_result_list
       ELSE /\ tool_result_list' = o.items
            /\ pc' = "normalize"
            /\ ret' = ret
    /\ UNCHANGED <<aside, history, turns, conn, message, mcp_tools_list,
                   llm_tool_choice_str, tool_name, tool_arguments,
                   tool_output_for_llm, bot_response, listCalls, oracleCalls>>

\* Step 3, last part: the result as one string; a failure here is caught by
\* the same handler as a failure of call_tool.
Normalize ==
    /\ pc = "normalize"
    /\ LET n == NormalizeResult(tool_result_list)
       IN IF n.ok
          THEN /\ tool_output_for_llm' = n.out
               /\ pc' = "narrate"
               /\ ret' = ret
          ELSE /\ Return(InvocationErrorText(tool_name, n.exc))
               /\ tool_output_for_llm' = tool_output_for_llm
    /\ UNCHANGED <<aside, history, turns, conn, message, mcp_tools_list,
                   llm_tool_choice_str, tool_name, tool_arguments,
                   tool_result_list, bot_response, logs>>

\* Step 4: the oracle explains the tool output.
Narrate(o) ==
    /\ pc = "narrate"
    /\ oracleCalls' = Append(oracleCalls,
            Request("summarize", SummarizeSystemPrompt,
                    SummarizeUserPrompt(message, tool_name, tool_arguments,
                                        tool_output_for_llm), o))
    /\ Return(AskOpenai(o))
    /\ UNCHANGED <<aside, history, turns, conn, message, mcp_tools_list,
                   llm_tool_choice_str, tool_name, tool_arguments,
                   tool_result_list, tool_output_for_llm, bot_response,
                   listCalls, toolCalls>>

\* The end of "async with": the client closes; bot_response is what
\* process_user_query returned unless closing raises.
Exit(o) ==
    /\ pc = "exit"
    /\ conn' = "closed"
    /\ IF o.raises
       THEN /\ bot_response' = HandleException(o.exc)
            /\ pc' = IF HandleException(o.exc) = Unbound THEN "raised" ELSE "append"
       ELSE /\ bot_response' = ret
            /\ pc' = "append"
    /\ UNCHANGED <<aside, history, turns, message, mcp_tools_list, llm_tool_choice_str,
                   tool_name, tool_arguments, tool_result_list,
                   tool_output_for_llm, ret, logs>>

Entry(role, content) == [role |-> role, content |-> content]

\* The turn appended as one [message, bot_response] pair.
AppendHistoryAsPair ==
    /\ pc = "append"
    /\ history' = Append(history, Entry("pair", bot_response))
    /\ pc' = "idle"
    /\ UNCHANGED <<aside, turns, conn, locals, logs>>

\* The two history.append calls and the return to the UI.
AppendHistory ==
    /\ pc = "append"
    /\ history' = history \o <<Entry("user", Text(<<W(message)>>)),
                               Entry("assistant", bot_response)>>
    /\ pc' = "idle"
    /\ UNCHANGED <<aside, turns, conn, locals, logs>>

\* The steps of a running turn.
TurnStep ==
    \/ \E o \in EnterOutcomes : Enter(o)
    \/ \E o \in ListOutcomes : ListTools(o)
    \/ \E o \in SelectionOutcomes : Select(o)
    \/ Parse
    \/ Decide
    \/ \E o \in NarrationOutcomes : Fallback(o)
    \/ Validate
    \/ \E o \in CallOutcomes : CallTool(o)
    \/ Normalize
    \/ \E o \in NarrationOutcomes : Narrate(o)
    \/ \E o \in ExitOutcomes : Exit(o)
    \/ AppendHistory

Next ==
    \/ \E m \in Messages : Submit(m)
    \/ TurnStep

Spec == Init /\ [][Next]_vars

\* ------------------------------------------------------ server.py: the tool

\* Arguments of the tool whose value is computed with: an int is a number, a
\* str is its characters.
IntArg(n) == [t |-> "int", v |-> n]
StrArg(chars) == [t |-> "str", v |-> chars]

Whitespace == {" ", "\t", "\n"}

\* str.strip()
RECURSIVE LStrip(_)
LStrip(chars) ==
    IF chars # <<>> /\ Head(chars) \in Whitespace THEN LStrip(Tail(chars))
    ELSE chars

RECURSIVE RStrip(_)
RStrip(chars) ==
    IF chars # <<>> /\ chars[Len(chars)] \in Whitespace
    THEN RStrip(SubSeq(chars, 1, Len(chars) - 1))
    ELSE chars

Strip(chars) == RStrip(LStrip(chars))

Digit ==
    [c \in {"0", "1", "2", "3", "4", "5", "6", "7", "8", "9"} |->
        CASE c = "0" -> 0 [] c = "1" -> 1 [] c = "2" -> 2 [] c = "3" -> 3
          [] c = "4" -> 4 [] c = "5" -> 5 [] c = "6" -> 6 [] c = "7" -> 7
          [] c = "8" -> 8 [] c = "9" -> 9]

RECURSIVE DecimalValue(_)
DecimalValue(chars) ==
    IF chars = <<>> THEN 0
    ELSE 10 * DecimalValue(SubSeq(chars, 1, Len(chars) - 1))
         + Digit[chars[Len(chars)]]

\* int(x): the number, or the exception int raises (of a str: its unsigned
\* decimal digits, blanks around them dropped).
IntOf(x) ==
    CASE x.t = "int" -> [ok |-> TRUE, val |-> x.v, exc |-> Exc("", <<>>)]
      [] x.t = "bool" ->
            [ok |-> TRUE, val |-> IF x.v = "True" THEN 1 ELSE 0, exc |-> Exc("", <<>>)]
      [] x.t = "str" ->
            LET digits == Strip(x.v)
            IN IF digits # <<>> /\ \A i \in 1..Len(digits) : digits[i] \in DOMAIN Digit
               THEN [ok |-> TRUE, val |-> DecimalValue(digits), exc |-> Exc("", <<>>)]
               ELSE [ok |-> FALSE, val |-> 0,
                     exc |-> Exc("ValueError",
                                 <<W("invalid literal for int() with base 10: '")>>
                                 \o [i \in 1..Len(x.v) |-> W(x.v[i])] \o <<W("'")>>)]
      [] OTHER ->
            [ok |-> FALSE, val |-> 0,
             exc |-> Exc("TypeError",
                         <<W("int() argument must be a string, a bytes-like object or a real number, not '"),
                           W(x.t), W("'")>>)]

\* A clamp that only caps the number.
ClampUpperOnly(n) == IF n < 20 THEN n ELSE 20

\* max(1, min(n, 20))
Clamp(n) ==
    LET least == IF n < 20 THEN n ELSE 20
    IN IF 1 > least THEN 1 ELSE least

\* The depth after "if search_depth not in [...]".
Depth(d) == IF d \in {PyStr("basic"), PyStr("advanced")} THEN d ELSE PyStr("basic")

\* "not isinstance(query, str) or not query.strip()"
QueryMissing(q) == q.t # "str" \/ Strip(q.v) = <<>>

ErrorRecord(msg) == PyDict(<< <<"error", Text(msg)>> >>)

QueryRequiredText ==
    <<W("Query parameter is required and must be a non-empty string")>>

\* What tavily_search hands to its host: a list it returns, or an exception
\* that leaves it.
Returns(list) == [raised |-> FALSE, val |-> list, exc |-> Exc("", <<>>)]
Propagates(e) == [raised |-> TRUE, val |-> <<>>, exc |-> e]

\* Handlers that lack the last "except Exception".
ServerHandleExceptionNoCatchAll(e) ==
    CASE e.cls = "TavilySearchError" ->
            Returns(<<ErrorRecord(<<W("Search failed: ")>> \o e.msg)>>)
      [] e.cls = "ValueError" ->
            Returns(<<ErrorRecord(<<W("Configuration error: ")>> \o e.msg)>>)
      [] OTHER -> Propagates(e)

\* The three except clauses of tavily_search.
ServerHandleException(e) ==
    CASE e.cls = "TavilySearchError" ->
            Returns(<<ErrorRecord(<<W("Search failed: ")>> \o e.msg)>>)
      [] e.cls = "ValueError" ->
            Returns(<<ErrorRecord(<<W("Configuration error: ")>> \o e.msg)>>)
      [] OTHER ->
            Returns(<<ErrorRecord(<<W("Unexpected error: ")>> \o e.msg)>>)

\* One formatted search result; a result that is no dict has no get.
FormatResult(result) ==
    PyDict(<< <<"type", PyStr("result")>>,
              <<"title", DictGet(result, "title", PyStr(""))>>,
              <<"url", DictGet(result, "url", PyStr(""))>>,
              <<"content", DictGet(result, "content", PyStr(""))>>,
              <<"score", DictGet(result, "score", [t |-> "float", v |-> "0.0"])>> >>)

NoGet(x) ==
    Exc("AttributeError",
        <<W("'"), W(x.t), W("' object has no attribute 'get'")>>)

\* Lines 56-76: the list built from the client's reply, or the exception
\* the building raises.
FormatResults(reply, q) ==
    IF reply.t # "dict" THEN [ok |-> FALSE, val |-> <<>>, exc |-> NoGet(reply)]
    ELSE LET answer == DictGet(reply, "answer", PyNone)
             found == DictGet(reply, "results", PyList(<<>>))
             first == IF Truthy(answer)
                      THEN << PyDict(<< <<"type", PyStr("answer")>>,
                                        <<"content", answer>>,
                                        <<"query", q>> >>) >>
                      ELSE <<>>
         IN IF found.t # "list"
            THEN [ok |-> FALSE, val |-> <<>>,
                  exc |-> Exc("TypeError", <<W("'"), W(found.t), W("' object is not iterable")>>)]
            ELSE IF \E i \in 1..Len(found.v) : found.v[i].t # "dict"
            THEN [ok |-> FALSE, val |-> <<>>,
                  exc |-> NoGet(found.v[CHOOSE i \in 1..Len(found.v) :
                                            /\ found.v[i].t # "dict"
                                            /\ \A j \in 1..(i - 1) : found.v[j].t = "dict"])]
            ELSE [ok |-> TRUE,
                  val |-> first \o [i \in 1..Len(found.v) |-> FormatResult(found.v[i])],
                  exc |-> Exc("", <<>>)]

\* What the HTTP exchange of TavilyClient.search does: the API answers with a
\* JSON body, or the exchange raises.
Responded(body) == [raises |-> FALSE, body |-> body, exc |-> Exc("", <<>>)]
Failed(e) == [raises |-> TRUE, body |-> PyNone, exc |-> e]

\* The payload TavilyClient.search posts.
Payload(api_key, q, n, d) ==
    [api_key |-> api_key, query |-> Strip(q.v), max_results |-> n,
     search_depth |-> d, include_answer |-> TRUE, include_images |-> FALSE,
     include_raw_content |-> FALSE]

\* TavilyClient.search: every exception of the exchange leaves it as a
\* TavilySearchError.
ClientSearch(q, o) ==
    IF Strip(q.v) = <<>>
    THEN Failed(Exc("TavilySearchError", <<W("Search query cannot be empty")>>))
    ELSE IF ~o.raises THEN o
    ELSE CASE o.exc.cls = "HTTPStatusError" ->
                Failed(Exc("TavilySearchError",
                           <<W("Search request failed: ")>> \o o.exc.msg))
           [] o.exc.cls = "RequestError" ->
                Failed(Exc("TavilySearchError", <<W("Network error: ")>> \o o.exc.msg))
           [] OTHER ->
                Failed(Exc("TavilySearchError", <<W("Unexpected error: ")>> \o o.exc.msg))

\* ------------------------------------------- the tool's callers and the API

MaxInput == 22

Queries ==
    {StrArg(<<>>), StrArg(<<" ", "\t">>), StrArg(<<"A", "I">>),
     StrArg(<<" ", "A", "I", "\n">>), IntArg(5), PyNone}

ResultCounts ==
    {IntArg(n) : n \in (0 - 3)..MaxInput}
    \cup {PyBool("True"), StrArg(<<"7">>), StrArg(<<"a", "b", "c">>), PyNone}

Depths == {PyStr("basic"), PyStr("advanced"), PyStr("deep"), PyStr("Basic"), PyNone}

ApiKeys == {"", "tvly-key"}

Hit(title) ==
    PyDict(<< <<"title", PyStr(title)>>, <<"url", PyStr("https://example.org")>>,
              <<"content", PyStr("snippet")>>, <<"score", [t |-> "float", v |-> "0.9"]>> >>)

HttpOutcomes ==
    {Responded(PyDict(<< <<"answer", PyStr("AI is in the news.")>>,
                         <<"results", PyList(<<Hit("one"), Hit("two")>>)>> >>)),
     Responded(PyDict(<< <<"answer", PyNone>>,
                         <<"results", PyList(<<PyDict(<< <<"url", PyStr("https://example.org")>> >>)>>)>> >>)),
     Responded(PyDict(<< <<"detail", PyStr("nothing found")>> >>)),
     Responded(PyList(<<>>)),
     Responded(PyDict(<< <<"results", PyList(<<Hit("one"), PyStr("two")>>)>> >>)),
     Failed(Exc("HTTPStatusError", <<W("HTTP 401: "), W("Unauthorized")>>)),
     Failed(Exc("RequestError", <<W("timed out")>>)),
     Failed(Exc("JSONDecodeError", <<W("Expecting value: line 1 column 1 (char 0)")>>))}

\* ------------------------------------------------------ one call of the tool

\* The host calls tavily_search(query, max_results, search_depth).
TavilySearch(q, n, d) ==
    /\ srv = "ready"
    /\ srv' = "validate"
    /\ given' = [query |-> q, max_results |-> n, search_depth |-> d]
    /\ query' = q
    /\ max_results' = n
    /\ search_depth' = d
    /\ UNCHANGED <<results, tool_return, keyReads, searchCalls>>
    /\ UNCHANGED <<history, turns, pc, conn, locals, logs, sessions>>

\* Lines 43-49: the query check, the clamp and the depth.
ValidateInputs ==
    /\ srv = "validate"
    /\ IF QueryMissing(query)
       THEN /\ tool_return' = Returns(<<ErrorRecord(QueryRequiredText)>>)
            /\ srv' = "returned"
            /\ UNCHANGED <<max_results, search_depth>>
       ELSE IF ~IntOf(max_results).ok
       THEN /\ tool_return' = ServerHandleException(IntOf(max_results).exc)
            /\ srv' = "returned"
            /\ UNCHANGED <<max_results, search_depth>>
       ELSE /\ max_results' = IntArg(Clamp(IntOf(max_results).val))
            /\ search_depth' = Depth(search_depth)
            /\ srv' = "client"
            /\ UNCHANGED tool_return
    /\ UNCHANGED <<given, query, results, keyReads, searchCalls>>
    /\ UNCHANGED <<history, turns, pc, conn, locals, logs, sessions>>

\* Line 52: get_tavily_client() reads the key and refuses an empty one.
GetTavilyClient(api_key) ==
    /\ srv = "client"
    /\ keyReads' = Append(keyReads, api_key)
    /\ IF api_key = ""
       THEN /\ tool_return' =
                ServerHandleException(
                    Exc("ValueError",
                        <<W("TAVILY_API_KEY environment variable is required")>>))
            /\ srv' = "returned"
       ELSE /\ srv' = "search"
            /\ UNCHANGED tool_return
    /\ UNCHANGED <<given, query, max_results, search_depth, results, searchCalls>>
    /\ UNCHANGED <<history, turns, pc, conn, locals, logs, sessions>>

\* Line 53: client.search(query, max_results, search_depth).
Search(o) ==
    /\ srv = "search"
    /\ LET reply == ClientSearch(query, o)
       IN /\ searchCalls' =
                Append(searchCalls,
                       [query |-> query, max_results |-> max_results,
                        search_depth |-> search_depth,
                        payload |-> Payload(keyReads[Len(keyReads)], query,
                                            max_results, search_depth),
                        reply |-> reply])
          /\ IF reply.raises
             THEN /\ tool_return' = ServerHandleException(reply.exc)
                  /\ srv' = "returned"
                  /\ UNCHANGED results
             ELSE /\ results' = reply.body
                  /\ srv' = "format"
                  /\ UNCHANGED tool_return
    /\ UNCHANGED <<given, query, max_results, search_depth, keyReads>>
    /\ UNCHANGED <<history, turns, pc, conn, locals, logs, sessions>>

\* Lines 56-76: the formatted results are returned.
Format ==
    /\ srv = "format"
    /\ tool_return' =
            IF FormatResults(results, query).ok
            THEN Returns(FormatResults(results, query).val)
            ELSE ServerHandleException(FormatResults(results, query).exc)
    /\ srv' = "returned"
    /\ UNCHANGED <<given, query, max_results, search_depth, results, keyReads,
                   searchCalls>>
    /\ UNCHANGED <<history, turns, pc, conn, locals, logs, sessions>>

\* The host has the tool's result: the call is over and its locals are gone.
Deliver ==
    /\ srv = "returned"
    /\ srv' = "ready"
    /\ given' = <<>>
    /\ query' = Unbound
    /\ max_results' = Unbound
    /\ search_depth' = Unbound
    /\ results' = Unbound
    /\ tool_return' = Unbound
    /\ keyReads' = <<>>
    /\ searchCalls' = <<>>
    /\ UNCHANGED <<history, turns, pc, conn, locals, logs, sessions>>

NextServer ==
    \/ \E q \in Queries, n \in ResultCounts, d \in Depths : TavilySearch(q, n, d)
    \/ ValidateInputs
    \/ \E api_key \in ApiKeys : GetTavilyClient(api_key)
    \/ \E o \in HttpOutcomes : Search(o)
    \/ Format
    \/ Deliver

SpecServer == Init /\ [][NextServer]_vars

\* ------------------------------------------------- app.py: concurrent turns

\* The object a session's n-th call constructs, on a transport.
NewClient(s, n, transport) == [id |-> <<s, n>>, transport |-> transport]

\* The connection a client opens: the client's own, through its transport.
Connection(client) == [client |-> client.id, transport |-> client.transport]

Own(s) == {c \in connections : c.client # <<>> /\ c.client[1] = s}

\* A session's browser submits: chat_interface_fn is called.
Call(s) ==
    /\ phase[s] = "idle"
    /\ started[s] < MaxTurns
    /\ started' = [started EXCEPT ![s] = @ + 1]
    /\ phase' = [phase EXCEPT ![s] = "construct"]
    /\ UNCHANGED <<mcp_client_instance, connections, opened>>
    /\ UNCHANGED <<history, turns, pc, conn, locals, logs, server>>

\* One client made when the module is loaded and used by every call.
ConstructShared(s) ==
    /\ phase[s] = "construct"
    /\ mcp_client_instance' =
            [mcp_client_instance EXCEPT ![s] = NewClient(0, 0, MCP_CLIENT_TRANSPORT)]
    /\ phase' = [phase EXCEPT ![s] = "enter"]
    /\ UNCHANGED <<started, connections, opened>>
    /\ UNCHANGED <<history, turns, pc, conn, locals, logs, server>>

\* Lines 215-218: Client(transport=MCP_CLIENT_TRANSPORT), a new client on
\* the module's transport object.
Construct(s) ==
    /\ phase[s] = "construct"
    /\ mcp_client_instance' =
            [mcp_client_instance EXCEPT
                ![s] = NewClient(s, started[s], MCP_CLIENT_TRANSPORT)]
    /\ phase' = [phase EXCEPT ![s] = "enter"]
    /\ UNCHANGED <<started, connections, opened>>
    /\ UNCHANGED <<history, turns, pc, conn, locals, logs, server>>

\* Line 220, "async with": the client connects, or the turn ends with the
\* error.
Open(s, o) ==
    /\ phase[s] = "enter"
    /\ IF o.raises
       THEN /\ phase' = [phase EXCEPT ![s] = "append"]
            /\ UNCHANGED <<connections, opened>>
       ELSE /\ connections' = connections \cup {Connection(mcp_client_instance[s])}
            /\ opened' = opened \cup {Connection(mcp_client_instance[s])}
            /\ phase' = [phase EXCEPT ![s] = "list"]
    /\ UNCHANGED <<started, mcp_client_instance>>
    /\ UNCHANGED <<history, turns, pc, conn, locals, logs, server>>

\* process_user_query up to its first return: the catalog is fetched, and an
\* empty one ends the query.
FetchCatalog(s, empty) ==
    /\ phase[s] = "list"
    /\ phase' = [phase EXCEPT ![s] = IF empty THEN "exit" ELSE "query"]
    /\ UNCHANGED <<started, mcp_client_instance, connections, opened>>
    /\ UNCHANGED <<history, turns, pc, conn, locals, logs, server>>

\* The rest of process_user_query: it returns its text.
FinishQuery(s) ==
    /\ phase[s] = "query"
    /\ phase' = [phase EXCEPT ![s] = "exit"]
    /\ UNCHANGED <<started, mcp_client_instance, connections, opened>>
    /\ UNCHANGED <<history, turns, pc, conn, locals, logs, server>>

\* The end of "async with": the client's connection is closed, whether or
\* not closing raises.
Close(s, o) ==
    /\ phase[s] = "exit"
    /\ connections' = connections \ {Connection(mcp_client_instance[s])}
    /\ phase' = [phase EXCEPT ![s] = "append"]
    /\ UNCHANGED <<started, mcp_client_instance, opened>>
    /\ UNCHANGED <<history, turns, pc, conn, locals, logs, server>>

\* Lines 230-232: the history is returned to the session's browser.
Respond(s) ==
    /\ phase[s] = "append"
    /\ phase' = [phase EXCEPT ![s] = "idle"]
    /\ mcp_client_instance' = [mcp_client_instance EXCEPT ![s] = NoClient]
    /\ UNCHANGED <<started, connections, opened>>
    /\ UNCHANGED <<history, turns, pc, conn, locals, logs, server>>

NextSessions ==
    \E s \in Sessions :
        \/ Call(s)
        \/ Construct(s)
        \/ \E o \in EnterOutcomes : Open(s, o)
        \/ \E empty \in BOOLEAN : FetchCatalog(s, empty)
        \/ FinishQuery(s)
        \/ \E o \in ExitOutcomes : Close(s, o)
        \/ Respond(s)

SpecSessions == Init /\ [][NextSessions]_vars
\* ------------------------------------------------------------------ claims

\* process_user_query has returned: the turn is closing or over.
HasReturned == pc \in {"exit", "append", "idle"} /\ ret.t = "str"

\* The oracle requests of one kind made in this turn.
Requests(mode) == {i \in 1..Len(oracleCalls) : oracleCalls[i].mode = mode}

\* C1: when the parsed selection's tool_name is null or the empty string
\* (whatever its arguments), call_tool is never called in the turn, the turn
\* never reaches the argument check or the invocation, and what
\* process_user_query returns begins with the no-tool marker.
C1_NoToolFallback ==
    (tool_name.t = "NoneType" \/ (tool_name.t = "str" /\ tool_name.v = ""))
    => /\ toolCalls = <<>>
       /\ pc \in {"decide", "fallback", "exit", "append", "idle"}
       /\ pc \in {"exit", "append", "idle"}
            => /\ ret.t = "str"
               /\ StartsWith(ret.v,
                    <<W("(No specific tool was used by the LLM for your query)")>>)

\* An empty-string tool_name with non-empty arguments has been answered.
C1_Witness ==
    /\ pc = "idle"
    /\ tool_name = PyStr("")
    /\ tool_arguments.t = "dict"
    /\ Len(tool_arguments.v) > 0
    /\ Len(history) > 0

\* C2: when list_tools raises or returns no tools, the catalog is empty,
\* process_user_query returns exactly "Error: Could not retrieve tools from
\* the MCP server.", and the turn makes no oracle request and no call_tool;
\* with the client closing normally that text is the turn's response.
C2_CatalogUnavailable ==
    (listCalls # <<>> /\ (listCalls[1].raises \/ listCalls[1].tools = <<>>))
    => /\ mcp_tools_list = <<>>
       /\ HasReturned
       /\ ret.v = <<W("Error: Could not retrieve tools from the MCP server.")>>
       /\ oracleCalls = <<>>
       /\ toolCalls = <<>>
       /\ (pc = "idle" /\ bot_response = ret)
            => history[Len(history)].content = ret

\* list_tools raised and the turn has answered with the catalog error.
C2_Witness ==
    /\ pc = "idle"
    /\ listCalls # <<>>
    /\ listCalls[1].raises
    /\ history # <<>>
    /\ history[Len(history)].content = Text(CatalogErrorText)

\* C3: when the selection oracle's text is no valid JSON, process_user_query
\* returns the invalid-JSON error followed by that raw text, and the turn
\* makes neither a call_tool nor a second oracle request.
C3_InvalidJsonTerminal ==
    (llm_tool_choice_str # <<>> /\ pc # "parse"
        /\ ~JsonLoads(llm_tool_choice_str).ok)
    => /\ HasReturned
       /\ Head(ret.v) = W("Error: LLM did not provide a valid JSON response for tool selection. LLM response:\n")
       /\ Contains(ret.v, llm_tool_choice_str)
       /\ toolCalls = <<>>
       /\ Len(oracleCalls) = 1
       /\ tool_name = Unbound

\* The oracle was unreachable, and the turn answered with ask_openai's error
\* string inside the invalid-JSON error.
C3_Witness ==
    /\ pc = "idle"
    /\ Len(oracleCalls) = 1
    /\ oracleCalls[1].reply.raises
    /\ llm_tool_choice_str = <<W("Error: Could not contact OpenAI - ")>> \o OracleError.msg
    /\ history # <<>>
    /\ Contains(history[Len(history)].content.v, llm_tool_choice_str)

\* C4: when the selection names a tool (a non-empty string) and its arguments
\* are no mapping, then once the arguments are checked process_user_query
\* has returned an error that names the tool and the Python type received,
\* and call_tool is never called in the turn.
C4_MalformedArguments ==
    (tool_name.t = "str" /\ tool_name.v # "" /\ tool_arguments.t # "dict")
    => /\ toolCalls = <<>>
       /\ pc \in {"decide", "validate", "exit", "append", "idle"}
       /\ pc \in {"exit", "append", "idle"}
            => /\ ret.t = "str"
               /\ Head(ret.v) = W("Error: LLM provided arguments in an incorrect format for tool '")
               /\ Contains(ret.v, <<W(tool_name.v)>>)
               /\ Contains(ret.v, <<W("<class '"), W(tool_arguments.t), W("'>")>>)
               /\ Len(oracleCalls) = 1

\* "arguments": null for tool x has been answered with the error.
C4_Witness ==
    /\ pc = "idle"
    /\ tool_name = PyStr("x")
    /\ tool_arguments = PyNone
    /\ history # <<>>
    /\ Contains(history[Len(history)].content.v, <<W("NoneType")>>)

\* C5: when call_tool raises, process_user_query returns the invocation
\* error, which holds the tool name and the exception's message, and the turn
\* makes no narration request.
C5_InvocationErrorBypassesNarration ==
    \A i \in 1..Len(toolCalls) :
        toolCalls[i].reply.raises
        => /\ HasReturned
           /\ Head(ret.v) = W("Error executing tool '")
           /\ Contains(ret.v, <<W(toolCalls[i].name.v)>>)
           /\ Contains(ret.v, toolCalls[i].reply.exc.msg)
           /\ Requests("summarize") = {}
           /\ Requests("general") = {}

\* call_tool raised and the turn answered with the invocation error.
C5_Witness ==
    /\ pc = "idle"
    /\ Len(toolCalls) = 1
    /\ toolCalls[1].reply.raises
    /\ history # <<>>
    /\ Contains(history[Len(history)].content.v, toolCalls[1].reply.exc.msg)

\* How far a turn at pc is: every step of a turn moves it forward.
StageRank(p) ==
    CASE p = "enter" -> 1
      [] p = "list" -> 2
      [] p = "select" -> 3
      [] p = "parse" -> 4
      [] p = "decide" -> 5
      [] p \in {"fallback", "validate"} -> 6
      [] p = "call" -> 7
      [] p = "normalize" -> 8
      [] p = "narrate" -> 9
      [] p = "exit" -> 10
      [] p = "append" -> 11
      [] OTHER -> 12

\* No exception has left chat_interface_fn, the response about to be
\* appended is a string, and every finished turn has added exactly one
\* assistant entry, a non-empty string, after the user's entry.
OneStringResponse ==
    /\ pc # "raised"
    /\ pc = "append" => bot_response.t = "str"
    /\ pc = "idle"
        => /\ Len(history) = 2 * turns
           /\ \A k \in 1..turns :
                /\ history[2 * k - 1].role = "user"
                /\ history[2 * k].role = "assistant"
                /\ history[2 * k].content.t = "str"
                /\ Len(history[2 * k].content.v) > 0

\* C6: every turn ends with exactly one assistant response, a string,
\* whichever stage failed: no exception leaves chat_interface_fn, and every
\* step of a running turn moves it forward, so it ends within eleven steps.
C6_AlwaysOneStringResponse ==
    /\ []OneStringResponse
    /\ [][pc # "idle" => StageRank(pc') > StageRank(pc)]_vars

\* A turn in which closing the client raised has ended with the
\* unexpected-error response in the history.
C6_Witness ==
    /\ pc = "idle"
    /\ ret.t = "str"
    /\ bot_response # ret
    /\ history # <<>>
    /\ Head(history[Len(history)].content.v) = W("An unexpected error occurred: ")

\* The turn is over: its response is in the history.
TurnOver == pc = "idle" /\ turns > 0

\* C7 as stated, for the turns in which process_user_query ran: every such
\* turn makes exactly one selection request, and the narrator is fed exactly
\* one tool result, or none when no tool was selected.
C7_ExactlyOneSelectionEveryTurn ==
    (TurnOver /\ ret.t = "str")
    => /\ Cardinality(Requests("select")) = 1
       /\ Cardinality(Requests("summarize")) =
            (IF tool_name.t = "NoneType" \/ tool_name = PyStr("") THEN 0 ELSE 1)

\* C7, amended: a turn makes at most one selection request: exactly one once
\* it has a non-empty catalog, none when the connection or the catalog
\* fails. The narrator is asked at most once per turn; asked about a tool
\* result, it is fed the normalised output of the turn's one successful
\* call_tool; asked for a general answer, no call_tool was made.
C7_AtMostOneSelection ==
    /\ Cardinality(Requests("select")) <= 1
    /\ (mcp_tools_list # <<>> /\ pc # "select")
        => Cardinality(Requests("select")) = 1
    /\ mcp_tools_list = <<>> => oracleCalls = <<>>
    /\ Cardinality(Requests("summarize") \cup Requests("general")) <= 1
    /\ \A i \in Requests("summarize") :
        /\ Len(toolCalls) = 1
        /\ ~toolCalls[1].reply.raises
        /\ tool_result_list = toolCalls[1].reply.items
        /\ Contains(oracleCalls[i].user,
                <<W(". The tool returned the following output: --- ")>>
                \o tool_output_for_llm
                \o <<W(" --- Please provide a natural language response to the user based on this.")>>)
    /\ \A i \in Requests("general") :
        /\ toolCalls = <<>>
        /\ tool_output_for_llm = <<>>

\* A turn that made one selection and fed one tool result to the narrator
\* has followed, in the same session, a turn that made no selection.
C7_Witness ==
    /\ TurnOver
    /\ turns = 2
    /\ Head(history[2].content.v) = W("Error: Could not retrieve tools from the MCP server.")
    /\ Cardinality(Requests("select")) = 1
    /\ Cardinality(Requests("summarize")) = 1
    /\ Len(toolCalls) = 1

\* C8: a turn asks the selection oracle at most once and calls call_tool at
\* most once; the name and arguments call_tool gets are the tool_name and
\* arguments read from the oracle's one answer, they passed the argument
\* check (the arguments are a mapping), and the narrator's prompt names that
\* tool and those arguments.
C8_OneSelectionUsedThroughout ==
    /\ Cardinality(Requests("select")) <= 1
    /\ Len(toolCalls) <= 1
    /\ \A i \in 1..Len(toolCalls) :
        LET answer == oracleCalls[1].reply.text
            sel == JsonLoads(answer).val
        IN /\ ~oracleCalls[1].reply.raises
           /\ oracleCalls[1].mode = "select"
           /\ toolCalls[i].name = DictGet(sel, "tool_name", PyNone)
           /\ toolCalls[i].arguments = DictGet(sel, "arguments", PyDict(<<>>))
           /\ toolCalls[i].name = tool_name
           /\ toolCalls[i].arguments = tool_arguments
           /\ toolCalls[i].arguments.t = "dict"
    /\ \A j \in Requests("summarize") :
        /\ Len(toolCalls) = 1
        /\ Contains(oracleCalls[j].user,
                <<W("\" The tool \""), W(toolCalls[1].name.v),
                  W("\" was called with arguments ")>>
                \o JsonDumps(toolCalls[1].arguments)
                \o <<W(". The tool returned the following output: --- ")>>)

\* A tool was called with the non-empty arguments of the selection and its
\* result narrated.
C8_Witness ==
    /\ TurnOver
    /\ Len(toolCalls) = 1
    /\ Len(toolCalls[1].arguments.v) = 2
    /\ Requests("summarize") # {}
    /\ Cardinality(Requests("select")) = 1

\* C9: when call_tool returns an empty sequence, the normalised output is
\* exactly "Tool executed successfully but returned no content.", the turn
\* goes on to narration, and that sentence is the tool output in the
\* narrator's prompt.
C9_EmptyResultSentinel ==
    \A i \in 1..Len(toolCalls) :
        (~toolCalls[i].reply.raises /\ toolCalls[i].reply.items = <<>>
            /\ pc # "normalize")
        => /\ tool_output_for_llm =
                <<W("Tool executed successfully but returned no content.")>>
           /\ pc \in {"narrate", "exit", "append", "idle"}
           /\ pc # "narrate" => Requests("summarize") # {}
           /\ \A j \in Requests("summarize") :
                Contains(oracleCalls[j].user,
                    <<W(". The tool returned the following output: --- "),
                      W("Tool executed successfully but returned no content."),
                      W(" --- Please provide a natural language response to the user based on this.")>>)

\* call_tool returned an empty list and the narrator has been asked.
C9_Witness ==
    /\ TurnOver
    /\ Len(toolCalls) = 1
    /\ ~toolCalls[1].reply.raises
    /\ toolCalls[1].reply.items = <<>>
    /\ Requests("summarize") # {}

\* C10: when the oracle fails on a narration request, of a tool result or of
\* the no-tool fallback, process_user_query still returns a string, which
\* holds ask_openai's error text with the oracle's message; in the fallback
\* it still begins with the no-tool marker; no exception leaves the turn.
C10_NarrationFailureEmbedded ==
    \A i \in Requests("summarize") \cup Requests("general") :
        oracleCalls[i].reply.raises
        => /\ HasReturned
           /\ pc # "raised"
           /\ Contains(ret.v, <<W("Error: Could not contact OpenAI - ")>>
                              \o oracleCalls[i].reply.exc.msg)
           /\ oracleCalls[i].mode = "general"
                => StartsWith(ret.v,
                     <<W("(No specific tool was used by the LLM for your query)")>>)
           /\ (pc = "idle" /\ bot_response = ret)
                => history[Len(history)].content = ret

\* The oracle failed in the fallback narration of the first turn and in the
\* tool-result narration of the second; both turns answered with the error.
C10_Witness ==
    /\ TurnOver
    /\ turns = 2
    /\ StartsWith(history[2].content.v, NoToolMarker)
    /\ Contains(history[2].content.v, OracleError.msg)
    /\ Requests("summarize") # {}
    /\ \A i \in Requests("summarize") : oracleCalls[i].reply.raises
    /\ Contains(history[4].content.v, OracleError.msg)

C14_HistoryAppendOnly ==
    [][/\ pc # "append" => history' = history
       /\ pc = "append"
            => /\ Len(history') = Len(history) + 2
               /\ SubSeq(history', 1, Len(history)) = history
               /\ history'[Len(history) + 1] =
                    [role |-> "user", content |-> Text(<<W(message)>>)]
               /\ history'[Len(history) + 2] =
                    [role |-> "assistant", content |-> bot_response]]_vars

\* A second turn has been appended after a first one that failed to connect.
C14_Witness ==
    /\ TurnOver
    /\ turns = 2
    /\ Len(history) = 4
    /\ history[2].content = Text(ConnectErrorText)
    /\ history[4].content # history[2].content

\* The stage changes a turn may make.
StageEdges ==
    {<<"idle", "enter">>, <<"enter", "list">>, <<"enter", "append">>,
     <<"list", "select">>, <<"list", "exit">>, <<"select", "parse">>,
     <<"parse", "decide">>, <<"parse", "exit">>, <<"decide", "fallback">>,
     <<"decide", "validate">>, <<"fallback", "exit">>,
     <<"validate", "call">>, <<"validate", "exit">>, <<"call", "normalize">>,
     <<"call", "exit">>, <<"normalize", "narrate">>, <<"normalize", "exit">>,
     <<"narrate", "exit">>, <<"exit", "append">>, <<"append", "idle">>}

\* The stage changes that cut a turn short.
ShortCuts ==
    {<<"list", "exit">>, <<"parse", "exit">>, <<"validate", "exit">>,
     <<"call", "exit">>, <<"normalize", "exit">>}

\* How the error strings of process_user_query begin.
ErrorHeads ==
    {W("Error: Could not retrieve tools from the MCP server."),
     W("Error: LLM did not provide a valid JSON response for tool selection. LLM response:\n"),
     W("Error parsing LLM tool choice: "),
     W("Error: LLM provided arguments in an incorrect format for tool '"),
     W("Error executing tool '")}

\* C15: a turn moves only along the stage order (catalog, selection, then
\* fallback narration or argument check, invocation, narration), a stage that
\* fails goes straight to the end with an error string, call_tool is made
\* only with a parsed selection whose arguments passed the check, and the
\* result narration only after a call_tool that returned.
C15_StageOrder ==
    /\ [][/\ <<pc, pc'>> \in StageEdges
          /\ <<pc, pc'>> \in ShortCuts
                => ret'.t = "str" /\ Head(ret'.v) \in ErrorHeads
          /\ Len(toolCalls') > Len(toolCalls) => pc = "call"
          /\ Len(oracleCalls') > Len(oracleCalls)
                => pc \in {"select", "fallback", "narrate"}]_vars
    /\ [](pc \in {"call", "normalize", "narrate"} \/ toolCalls # <<>>
            => /\ JsonLoads(llm_tool_choice_str).ok
               /\ tool_name.t \notin {"unbound", "NoneType"}
               /\ tool_arguments.t = "dict")
    /\ [](\A j \in Requests("summarize") :
            /\ Len(toolCalls) = 1
            /\ ~toolCalls[1].reply.raises
            /\ pc \in {"exit", "append", "idle"})

\* One turn has gone through every stage of the tool path.
C15_Witness ==
    /\ TurnOver
    /\ turns = 1
    /\ Len(toolCalls) = 1
    /\ Requests("summarize") # {}
    /\ ~oracleCalls[2].reply.raises
    /\ bot_response = ret

\* C16: when call_tool returns a non-empty list whose first item has a text
\* attribute, the normalised output is that text and nothing else, whether
\* or not the item also has data and whatever items follow, and it is the
\* tool output of the narrator's prompt.
C16_FirstItemTextVerbatim ==
    \A i \in 1..Len(toolCalls) :
        (/\ ~toolCalls[i].reply.raises
         /\ toolCalls[i].reply.items # <<>>
         /\ pc # "normalize")
        => LET first == toolCalls[i].reply.items[1]
           IN "text" \in first.attrs
              => /\ tool_output_for_llm = <<W(first.text)>>
                 /\ pc \in {"narrate", "exit", "append", "idle"}
                 /\ \A j \in Requests("summarize") :
                        Contains(oracleCalls[j].user,
                            <<W(". The tool returned the following output: --- "),
                              W(first.text),
                              W(" --- Please provide a natural language response to the user based on this.")>>)

\* A result whose first item has text and data, followed by an image, has
\* been narrated.
C16_Witness ==
    /\ TurnOver
    /\ Len(toolCalls) = 1
    /\ Len(tool_result_list) = 2
    /\ {"text", "data"} \subseteq tool_result_list[1].attrs
    /\ Requests("summarize") # {}

\* The first item of a result has data and no text.
BinaryFirst(items) ==
    /\ items # <<>>
    /\ "data" \in items[1].attrs
    /\ "text" \notin items[1].attrs

\* C17 as stated: for a first item with data and no text, the placeholder
\* names the declared (media) type of the binary.
C17_PlaceholderNamesDeclaredType ==
    \A i \in 1..Len(toolCalls) :
        (/\ ~toolCalls[i].reply.raises
         /\ BinaryFirst(toolCalls[i].reply.items)
         /\ pc # "normalize")
        => Contains(tool_output_for_llm,
                <<W(DictGet(toolCalls[i].reply.items[1].view, "mimeType",
                            PyStr("")).v)>>)

\* C17, amended: for a first item with data and no text, the normalised
\* output is "[Binary data received, type: <class '...'>]" with the Python
\* type of the data attribute (not the item's media type), and the data
\* itself is in no prompt given to the narrator.
C17_PlaceholderNamesDataType ==
    \A i \in 1..Len(toolCalls) :
        (/\ ~toolCalls[i].reply.raises
         /\ BinaryFirst(toolCalls[i].reply.items)
         /\ pc # "normalize")
        => LET first == toolCalls[i].reply.items[1]
               payload == DictGet(first.view, "data", PyStr("")).v
           IN /\ tool_output_for_llm =
                    <<W("[Binary data received, type: "), W("<class '"),
                      W(first.dataType), W("'>"), W("]")>>
              /\ \A j \in 1..Len(oracleCalls) :
                    /\ ~Contains(oracleCalls[j].user, <<S(payload)>>)
                    /\ ~Contains(oracleCalls[j].user, <<W(payload)>>)
              /\ \A j \in Requests("summarize") :
                    Contains(oracleCalls[j].user, tool_output_for_llm)

\* An image result has been narrated.
C17_Witness ==
    /\ TurnOver
    /\ Len(toolCalls) = 1
    /\ ~toolCalls[1].reply.raises
    /\ BinaryFirst(tool_result_list)
    /\ Requests("summarize") # {}

\* The parameters_schema of entry i of the catalog.
CatalogSchema(i) == DictGet(mcp_tools_list[i], "parameters_schema", PyNone)

\* C18 as stated, its particular case: a tool whose inputSchema is present
\* and no object and whose "parameters" is an object gets the "parameters"
\* schema.
C18_NonObjectSchemaFallsToParameters ==
    mcp_tools_list # <<>>
    => \A i \in 1..Len(listCalls[1].tools) :
        LET t == listCalls[1].tools[i]
        IN (/\ t.inputSchema.kind = "value"
            /\ t.inputSchema.val.t \notin {"NoneType", "dict"}
            /\ t.parameters.kind = "value"
            /\ t.parameters.val.t = "dict")
           => CatalogSchema(i) = t.parameters.val

\* C18, amended: the schema of each tool of a non-empty catalog is its
\* inputSchema when that is present, not None and a dict, and {} when it is
\* present, not None and no dict (then "parameters" is not looked at); only
\* when inputSchema is absent or None it is the schema of "parameters" when
\* that is a model class, "parameters" itself when that is a dict, and {}
\* otherwise; a tool with neither attribute gets {}.
C18_SchemaChain ==
    mcp_tools_list # <<>>
    => /\ Len(mcp_tools_list) = Len(listCalls[1].tools)
       /\ \A i \in 1..Len(listCalls[1].tools) :
            LET t == listCalls[1].tools[i]
            IN CatalogSchema(i) =
                IF t.inputSchema.kind = "value" /\ t.inputSchema.val.t # "NoneType"
                THEN (IF t.inputSchema.val.t = "dict" THEN t.inputSchema.val
                      ELSE PyDict(<<>>))
                ELSE IF t.parameters.kind = "model" THEN t.parameters.val
                ELSE IF t.parameters.kind = "value" /\ t.parameters.val.t = "dict"
                     THEN t.parameters.val
                ELSE PyDict(<<>>)

\* A catalog holds, with the schema {}, a tool whose inputSchema is no dict
\* and whose "parameters" is one, and a tool with neither attribute.
C18_Witness ==
    /\ Len(mcp_tools_list) = 2
    /\ listCalls[1].tools = <<OddTool, BareTool>>
    /\ CatalogSchema(1) = PyDict(<<>>)
    /\ CatalogSchema(2) = PyDict(<<>>)
    /\ pc = "select"

\* C19 as stated: when list_tools returns tools, the catalog holds every one
\* of them in order, a tool whose schema cannot be extracted having {}.
C19_BadToolOnlyDegraded ==
    (listCalls # <<>> /\ ~listCalls[1].raises)
    => /\ Len(mcp_tools_list) = Len(listCalls[1].tools)
       /\ \A i \in 1..Len(listCalls[1].tools) :
            /\ DictGet(mcp_tools_list[i], "name", PyNone) =
                    PyStr(listCalls[1].tools[i].name)
            /\ listCalls[1].tools[i].parameters.kind = "badmodel"
                    => CatalogSchema(i) = PyDict(<<>>)

\* The number an int argument stands for (True is 1).
GivenNumber(x) == IF x.t = "bool" THEN (IF x.v = "True" THEN 1 ELSE 0) ELSE x.v

\* C13: whenever tavily_search calls the search client for an integer
\* max_results, the number passed on (and posted) is 1 for a given number
\* below 1, 20 for one above 20 and the given number otherwise, and the depth
\* passed on is the given one when that is "basic" or "advanced" and "basic"
\* otherwise; with a non-empty query and an API key the client is called.
C13_ClampAndDepthPassedOn ==
    /\ \A i \in 1..Len(searchCalls) :
        given.max_results.t \in {"int", "bool"}
        => LET n == GivenNumber(given.max_results)
               call == searchCalls[i]
           IN /\ ~QueryMissing(given.query)
              /\ call.max_results.t = "int"
              /\ call.max_results.v >= 1 /\ call.max_results.v <= 20
              /\ (n >= 1 /\ n <= 20) => call.max_results.v = n
              /\ n < 1 => call.max_results.v = 1
              /\ n > 20 => call.max_results.v = 20
              /\ call.search_depth =
                    (IF given.search_depth = PyStr("basic")
                        \/ given.search_depth = PyStr("advanced")
                     THEN given.search_depth ELSE PyStr("basic"))
              /\ call.payload.max_results = call.max_results
              /\ call.payload.search_depth = call.search_depth
    /\ (/\ srv \in {"format", "returned"}
        /\ ~QueryMissing(given.query)
        /\ given.max_results.t \in {"int", "bool"}
        /\ keyReads = <<"tvly-key">>)
       => Len(searchCalls) = 1

\* The client has been called for a max_results below the range and a depth
\* that is neither "basic" nor "advanced".
C13_Witness ==
    /\ srv = "returned"
    /\ Len(searchCalls) = 1
    /\ given.max_results = IntArg(0 - 2)
    /\ given.search_depth = PyStr("deep")
    /\ searchCalls[1].max_results = IntArg(1)
    /\ searchCalls[1].search_depth = PyStr("basic")

\* Something failed in the call of tavily_search that has returned.
ToolFailed ==
    \/ QueryMissing(given.query)
    \/ ~IntOf(given.max_results).ok
    \/ keyReads = <<"">>
    \/ \E i \in 1..Len(searchCalls) : searchCalls[i].reply.raises
    \/ results # Unbound /\ results.t # "dict"
    \/ /\ results # Unbound
       /\ results.t = "dict"
       /\ \E i \in 1..Len(DictGet(results, "results", PyList(<<>>)).v) :
            DictGet(results, "results", PyList(<<>>)).v[i].t # "dict"

\* C20: no exception leaves tavily_search; a call in which something failed
\* (a missing or blank query, a max_results int() refuses, no API key, an
\* error of the search client, a reply that cannot be formatted) returns a
\* list of one record whose only field is "error"; and for a missing or
\* blank query neither the key is read nor the search client called.
C20_ToolNeverRaises ==
    /\ tool_return # Unbound => ~tool_return.raised
    /\ srv = "returned" <=> tool_return # Unbound
    /\ (srv = "returned" /\ ToolFailed)
       => /\ Len(tool_return.val) = 1
          /\ tool_return.val[1].t = "dict"
          /\ Len(tool_return.val[1].v) = 1
          /\ tool_return.val[1].v[1][1] = "error"
          /\ tool_return.val[1].v[1][2].t = "str"
          /\ tool_return.val[1].v[1][2].v # <<>>
    /\ (srv = "returned" /\ ~ToolFailed)
       => \A i \in 1..Len(tool_return.val) :
            DictGet(tool_return.val[i], "error", PyNone) = PyNone
    /\ (srv # "ready" /\ QueryMissing(given.query))
       => keyReads = <<>> /\ searchCalls = <<>>

\* A call with a max_results that is no number has returned its error.
C20_Witness ==
    /\ srv = "returned"
    /\ ~QueryMissing(given.query)
    /\ given.max_results = PyNone
    /\ tool_return.val[1].v[1][2].v[1] = W("Unexpected error: ")

\* The sessions whose call of chat_interface_fn has a client.
InTurn == {s \in Sessions : phase[s] \in {"enter", "list", "query", "exit"}}

OwnClientSharedTransport ==
    /\ \A s \in Sessions :
        /\ phase[s] \in {"list", "query", "exit"}
                => /\ Own(s) = {Connection(mcp_client_instance[s])}
                   /\ mcp_client_instance[s].id = <<s, started[s]>>
        /\ phase[s] \in {"idle", "construct", "enter", "append"} => Own(s) = {}
    /\ \A s \in InTurn : \A t \in InTurn \ {s} :
        mcp_client_instance[s].id # mcp_client_instance[t].id
    /\ Cardinality(connections) =
            Cardinality({s \in Sessions : phase[s] \in {"list", "query", "exit"}})
    /\ \A s \in InTurn : mcp_client_instance[s].transport = MCP_CLIENT_TRANSPORT
    /\ \A c \in opened : c.transport = MCP_CLIENT_TRANSPORT

====
